---- MODULE Spec2Model ----
(***************************************************************************)
(* A model of the cx-core-schemas data contracts                           *)
(* (src/src/cx_core_schemas/connector_script.py and notebook.py).          *)
(*                                                                         *)
(* The package is a set of pydantic (v2) models.  A client session is the  *)
(* state machine: it calls a constructor with raw input (validation        *)
(* either returns an object or raises), holds the object it got, and may   *)
(* assign to the fields of an object it holds.                             *)
(*                                                                         *)
(* Python str values are sequences of characters; a character is written   *)
(* as a one-symbol TLA+ string ("U03D2" and the like name a code point).   *)
(***************************************************************************)
EXTENDS Integers, Sequences, FiniteSets, TLC

VARIABLES
    pc,         \* "ready": the call is about to be made; "done": it has returned or raised
    call,       \* the call: the callable's name and its raw input
    obj,        \* the object the call returned (kind "None" when it returned none)
    err,        \* what the call raised: "none", "ValidationError", "ImportError"
    assigned    \* TRUE once a field of the returned object was assigned to

vars == <<pc, call, obj, err, assigned>>

----------------------------------------------------------------------------
(* Bounds of the model.                                                    *)

\* longest name the id derivation is applied to
MaxNameLen == 3
\* longest source_paths / source_results list of a stand-alone action
MaxSrc == 2
\* longest steps list of a script
MaxSteps == 2
\* longest depends_on list of a step of a script
MaxDeps == 1

----------------------------------------------------------------------------
(* Python str: str.replace on one-character patterns and str.lower.        *)

\* Characters the names are drawn from.  "U03D2" is GREEK UPSILON WITH HOOK
\* SYMBOL (category Lu, no lower-case mapping); "U0130" is LATIN CAPITAL
\* LETTER I WITH DOT ABOVE, whose lower-case form is the two code points
\* "i" "U0307".
Chars == {"a", "A", " ", "-", "_", "U03D2", "U0130"}

\* str.isupper() of one character.
IsUpper(c) == c \in {"A", "U03D2", "U0130"}

\* str.lower() of one character: a sequence, since one code point may lower
\* to several.
LowerChar(c) ==
    CASE c = "A" -> <<"a">>
      [] c = "U0130" -> <<"i", "U0307">>
      [] OTHER -> <<c>>

\* s.replace(old, new) for one-character old and new.
Replace(s, old, new) == [i \in 1..Len(s) |-> IF s[i] = old THEN new ELSE s[i]]

RECURSIVE Lower(_)
\* s.lower()
Lower(s) == IF s = <<>> THEN <<>> ELSE LowerChar(Head(s)) \o Lower(Tail(s))

\* A derivation that forgets the hyphens.
DefaultIdNoHyphen(name) == Lower(Replace(name, " ", "_"))

\* name.replace(" ", "_").replace("-", "_").lower()
DefaultId(name) == Lower(Replace(Replace(name, " ", "_"), "-", "_"))

\* Sequences over S of length at most n.
SeqUpTo(S, n) == UNION {[1..k -> S] : k \in 0..n}

----------------------------------------------------------------------------
(* Optional[T]: None, or a value of T.                                     *)

None == [none |-> TRUE, val |-> <<>>]
Some(v) == [none |-> FALSE, val |-> v]

\* Python truth value of an Optional[List[str]]: None and [] are falsy.
Truthy(o) == ~o.none /\ Len(o.val) > 0

NoObj == [kind |-> "None"]
Raised(e) == [ok |-> FALSE, err |-> e, val |-> NoObj]
Returned(v) == [ok |-> TRUE, err |-> "none", val |-> v]

----------------------------------------------------------------------------
(* The action models and their union.                                      *)

\* The members of the union, in the order of the source.  Each: the class,
\* its Literal tag, and its fields without a default (besides "action").
TestConnectionAction ==
    [cls |-> "TestConnectionAction", tag |-> "test_connection", required |-> {}]
BrowsePathAction ==
    [cls |-> "BrowsePathAction", tag |-> "browse_path", required |-> {}]
ReadContentAction ==
    [cls |-> "ReadContentAction", tag |-> "read_content", required |-> {"path"}]
RunSqlQueryAction ==
    [cls |-> "RunSqlQueryAction", tag |-> "run_sql_query", required |-> {"query"}]
RunDeclarativeAction ==
    [cls |-> "RunDeclarativeAction", tag |-> "run_declarative_action",
     required |-> {"template_key"}]
AggregateContentAction ==
    [cls |-> "AggregateContentAction", tag |-> "aggregate_content",
     required |-> {"target_path"}]
RunPythonScriptAction ==
    [cls |-> "RunPythonScriptAction", tag |-> "run_python_script",
     required |-> {"script_path"}]
WriteFilesAction ==
    [cls |-> "WriteFilesAction", tag |-> "write_files", required |-> {"files"}]
RunTransformAction ==
    [cls |-> "RunTransformAction", tag |-> "run_transform",
     required |-> {"script_path"}]

\* The nine action models the module declares.
ActionModels ==
    {RunSqlQueryAction, TestConnectionAction, BrowsePathAction, ReadContentAction,
     RunDeclarativeAction, AggregateContentAction, RunPythonScriptAction,
     WriteFilesAction, RunTransformAction}

\* The union as it would stand had the last model never been added to it.
AnyConnectorActionStale ==
    {TestConnectionAction, BrowsePathAction, ReadContentAction, RunSqlQueryAction,
     RunDeclarativeAction, AggregateContentAction, RunPythonScriptAction,
     WriteFilesAction}

AnyConnectorAction ==
    {TestConnectionAction, BrowsePathAction, ReadContentAction, RunSqlQueryAction,
     RunDeclarativeAction, AggregateContentAction, RunPythonScriptAction,
     WriteFilesAction, RunTransformAction}

\* The validator with "or" for "and": it passes only when both are given.
check_both_sources(self) == Truthy(self.source_paths) /\ Truthy(self.source_results)

\* The validator comparing with None instead of testing truth: [] passes.
check_source_not_none(self) == ~(self.source_paths.none /\ self.source_results.none)

\* AggregateContentAction.check_at_least_one_source: TRUE when it returns
\* self, FALSE when it raises ValueError.
check_at_least_one_source(self) ==
    ~(~Truthy(self.source_paths) /\ ~Truthy(self.source_results))

\* Validation of raw input against one action model: the Literal tag, the
\* required fields, then the model's "after" validator (only
\* AggregateContentAction has one).  raw: [action, given, source_paths,
\* source_results], given being the names of the other fields supplied.
ValidateAction(v, raw) ==
    IF raw.action # v.tag \/ ~(v.required \subseteq raw.given)
    THEN Raised("ValidationError")
    ELSE LET self == [kind |-> v.cls, action |-> v.tag,
                      source_paths |-> raw.source_paths,
                      source_results |-> raw.source_results]
         IN  IF v.cls = "AggregateContentAction" /\ ~check_at_least_one_source(self)
             THEN Raised("ValidationError")
             ELSE Returned(self)

\* Field(..., discriminator="action") over AnyConnectorAction: the member
\* whose tag the input carries validates it; no such member is an error.
ValidateRun(raw) ==
    LET members == {v \in AnyConnectorAction : v.tag = raw.action}
    IN  IF members = {} THEN Raised("ValidationError")
        ELSE ValidateAction(CHOOSE v \in members : TRUE, raw)

----------------------------------------------------------------------------
(* ConnectorStep and ConnectorScript.                                      *)

\* ConnectorStep.set_default_id, the "after" validator: it runs on a step
\* whose fields have all been validated.
set_default_id(self) ==
    IF self.id.none
    THEN [self EXCEPT !.id = Some(DefaultId(self.name))]
    ELSE self

\* ConnectorStep(**raw).  raw: [id, name, run, depends_on]; raw.id.tag is
\* "missing" (no id key), "none" (id=None) or "str".  Field validation comes
\* first: id is declared "id: str", required and not Optional, so a missing
\* id and a None id are both errors; run goes through the union.  name and
\* connection_source are taken as supplied and valid.
ValidateStep(raw) ==
    LET run == ValidateRun(raw.run)
    IN  IF raw.id.tag # "str" \/ ~run.ok
        THEN Raised("ValidationError")
        ELSE Returned(set_default_id(
                 [kind |-> "ConnectorStep", id |-> Some(raw.id.val),
                  name |-> raw.name, run |-> run.val,
                  depends_on |-> raw.depends_on]))

\* List[ConnectorStep]: every item validates, or the list is an error.
ValidateSteps(raws) ==
    IF \A i \in 1..Len(raws) : ValidateStep(raws[i]).ok
    THEN Returned([i \in 1..Len(raws) |-> ValidateStep(raws[i]).val])
    ELSE Raised("ValidationError")

\* ConnectorScript(name=..., steps=raw.steps): the class declares fields and
\* no validator of its own.
ValidateScript(raw) ==
    LET steps == ValidateSteps(raw.steps)
    IN  IF ~steps.ok THEN Raised("ValidationError")
        ELSE Returned([kind |-> "ConnectorScript", steps |-> steps.val])

----------------------------------------------------------------------------
(* notebook.py: the module's imports and ContextualPage.                   *)

\* The names connector_script.py binds at module level.
ConnectorScriptNames ==
    {"Any", "Dict", "List", "Literal", "Optional", "Union",
     "BaseModel", "Field", "model_validator",
     "RunSqlQueryAction", "TestConnectionAction", "BrowsePathAction",
     "ReadContentAction", "RunDeclarativeAction", "AggregateContentAction",
     "RunPythonScriptAction", "FileToWrite", "WriteFilesAction",
     "RunTransformAction", "AnyConnectorAction", "ConnectorStep",
     "ConnectorScript"}

\* from .connector_script import ScriptInputParameter, ConnectorStep
NotebookImports == {"ScriptInputParameter", "ConnectorStep"}

\* Importing notebook.py succeeds when every imported name is bound.
NotebookImportable == NotebookImports \subseteq ConnectorScriptNames

\* ContextualPage(name=..., inputs=raw.inputs, blocks=raw.blocks) as a client
\* reaches it: through the import of the notebook module.  inputs defaults
\* to an empty dict (default_factory=dict).
ValidatePage(raw) ==
    IF ~NotebookImportable THEN Raised("ImportError")
    ELSE LET blocks == ValidateSteps(raw.blocks)
         IN  IF ~blocks.ok THEN Raised("ValidationError")
             ELSE Returned([kind |-> "ContextualPage",
                            inputs |-> IF raw.inputs.none THEN <<>>
                                       ELSE raw.inputs.val,
                            blocks |-> blocks.val])

----------------------------------------------------------------------------
(* The raw inputs the calls are made with.                                 *)

Paths == {"p1", "p2"}
OptLists(n) == {None} \cup {Some(l) : l \in SeqUpTo(Paths, n)}

\* Raw input of a stand-alone AggregateContentAction(...): the right tag or
\* another one, target_path supplied or not, every pair of source lists.
AggregateInputs ==
    [action : {"aggregate_content", "browse_path"},
     given : SUBSET {"target_path"},
     source_paths : OptLists(MaxSrc),
     source_results : OptLists(MaxSrc)]

\* Raw input of a step's run: the tag of each action model with any part of
\* its required fields supplied, and a tag no action model declares.
RunInputs ==
    UNION {[action : {v.tag}, given : SUBSET v.required,
            source_paths : IF v.cls = "AggregateContentAction"
                           THEN {None, Some(<<>>), Some(<<"p1">>)} ELSE {None},
            source_results : IF v.cls = "AggregateContentAction"
                             THEN {None, Some(<<>>), Some(<<"p1">>)} ELSE {None}]
           : v \in ActionModels}
    \cup {[action |-> "send_email", given |-> {},
           source_paths |-> None, source_results |-> None]}

Ids == {<<"a">>, <<"b">>}
IdInputs(ids) ==
    {[tag |-> "missing", val |-> <<>>], [tag |-> "none", val |-> <<>>]}
    \cup {[tag |-> "str", val |-> i] : i \in ids}

\* Raw inputs of a stand-alone ConnectorStep(...).
StepInputs ==
    [id : IdInputs(Ids \cup {<<"A", "-">>}),
     name : {<<"a">>, <<"A", " ", "-">>},
     run : RunInputs,
     depends_on : {None}]

TestConnectionInput ==
    [action |-> "test_connection", given |-> {},
     source_paths |-> None, source_results |-> None]

\* Raw inputs of the steps of a script: the ids and the depends_on lists vary.
ScriptStepInputs ==
    [id : {i \in IdInputs(Ids) : i.tag # "none"},
     name : {<<"a">>},
     run : {TestConnectionInput},
     depends_on : {None} \cup {Some(l) : l \in SeqUpTo(Ids, MaxDeps)}]

ScriptInputs == [steps : SeqUpTo(ScriptStepInputs, MaxSteps)]

\* A parameter spec as the spec of the page's inputs describes one.
ParamSpec == [type |-> "integer", required |-> FALSE, default |-> "10"]
PageInputs ==
    [inputs : {None, Some(<<>>), Some([n \in {"limit"} |-> ParamSpec])},
     blocks : SeqUpTo(ScriptStepInputs, MaxSteps)]

NameInputs == [name : SeqUpTo(Chars, MaxNameLen)]

Calls ==
    [op : {"AggregateContentAction"}, raw : AggregateInputs]
    \cup [op : {"ConnectorStep"}, raw : StepInputs]
    \cup [op : {"ConnectorScript"}, raw : ScriptInputs]
    \cup [op : {"ContextualPage"}, raw : PageInputs]
    \cup [op : {"default_id"}, raw : NameInputs]

----------------------------------------------------------------------------
(* The session.                                                            *)

Init ==
    /\ pc = "ready"
    /\ call \in Calls
    /\ obj = NoObj
    /\ err = "none"
    /\ assigned = FALSE

\* The call returns r.val or raises r.err.
Finish(r) ==
    /\ obj' = r.val
    /\ err' = r.err
    /\ pc' = "done"
    /\ UNCHANGED <<call, assigned>>

NewAggregateContentAction ==
    /\ pc = "ready"
    /\ call.op = "AggregateContentAction"
    /\ Finish(ValidateAction(AggregateContentAction, call.raw))

NewConnectorStep ==
    /\ pc = "ready"
    /\ call.op = "ConnectorStep"
    /\ Finish(ValidateStep(call.raw))

NewConnectorScript ==
    /\ pc = "ready"
    /\ call.op = "ConnectorScript"
    /\ Finish(ValidateScript(call.raw))

NewContextualPage ==
    /\ pc = "ready"
    /\ call.op = "ContextualPage"
    /\ Finish(ValidatePage(call.raw))

\* The default-id expression of set_default_id applied to a name, and again
\* to its own result.
DeriveDefaultId ==
    /\ pc = "ready"
    /\ call.op = "default_id"
    /\ Finish(Returned([kind |-> "id",
                        once |-> DefaultId(call.raw.name),
                        twice |-> DefaultId(DefaultId(call.raw.name))]))

\* action.source_paths = v or action.source_results = v on a constructed
\* AggregateContentAction.  The class sets no model_config: pydantic's
\* defaults (validate_assignment off, not frozen) store the value and run
\* no validator.
SetSource ==
    /\ pc = "done"
    /\ obj.kind = "AggregateContentAction"
    /\ \E f \in {"source_paths", "source_results"}, v \in OptLists(MaxSrc) :
          /\ obj' = [obj EXCEPT ![f] = v]
          /\ call' = [op |-> "setattr", raw |-> [field |-> f, value |-> v]]
    /\ assigned' = TRUE
    /\ UNCHANGED <<pc, err>>

Next ==
    \/ NewAggregateContentAction
    \/ NewConnectorStep
    \/ NewConnectorScript
    \/ NewContextualPage
    \/ DeriveDefaultId
    \/ SetSource

Spec == Init /\ [][Next]_vars

----------------------------------------------------------------------------
(* The depends_on graph of a list of steps.                                *)

\* The edges: from a step's id to each id its depends_on lists (none for a
\* step whose depends_on is None).
DependsOnEdges(steps) ==
    UNION {{<<steps[i].id.val, steps[i].depends_on.val[k]>> :
               k \in 1..Len(steps[i].depends_on.val)} : i \in 1..Len(steps)}

RECURSIVE Closure(_, _)
\* The pairs joined by a path of at most n + 1 edges of R.
Closure(R, n) ==
    IF n = 0 THEN R
    ELSE LET C == Closure(R, n - 1)
         IN  C \cup {<<p[1][1], p[2][2]>> : p \in {q \in C \X R : q[1][2] = q[2][1]}}

\* Some step id reaches itself along depends_on edges.
HasCycle(steps) ==
    LET E == DependsOnEdges(steps)
    IN  \E e \in Closure(E, Cardinality(E)) : e[1] = e[2]

\* Two steps of the list hold the same id.
HasDuplicateId(steps) ==
    \E i, j \in 1..Len(steps) : i # j /\ steps[i].id = steps[j].id

----------------------------------------------------------------------------
(* The claims.                                                             *)

HasSource(a) == Truthy(a.source_paths) \/ Truthy(a.source_results)

\* C1: a stand-alone AggregateContentAction(...) with the right tag and a
\* target_path raises a validation error whenever source_paths and
\* source_results are both absent, and returns the action, holding the
\* sources it was given, whenever at least one of them has an entry.
C1_AtLeastOneSourceAtConstruction ==
    (pc = "done" /\ call.op = "AggregateContentAction"
       /\ call.raw.action = "aggregate_content" /\ "target_path" \in call.raw.given)
    => /\ (call.raw.source_paths.none /\ call.raw.source_results.none)
            => (err = "ValidationError" /\ obj = NoObj)
       /\ HasSource(call.raw)
            => /\ err = "none"
               /\ obj.kind = "AggregateContentAction"
               /\ obj.source_paths = call.raw.source_paths
               /\ obj.source_results = call.raw.source_results

\* C1 witness: constructed from source_results alone.
C1_Witness ==
    /\ pc = "done" /\ call.op = "AggregateContentAction" /\ err = "none"
    /\ obj.kind = "AggregateContentAction"
    /\ obj.source_paths.none /\ Len(obj.source_results.val) = 1

\* C2 (as claimed): no constructed ConnectorScript holds two steps with the
\* same id; a steps list with a repeated id is rejected.
C2_StepIdsUnique ==
    (pc = "done" /\ obj.kind = "ConnectorScript") => ~HasDuplicateId(obj.steps)

\* C3 (as claimed): a ConnectorStep constructed without an id (its other
\* fields valid) is returned with id = the name lower-cased, spaces and
\* hyphens replaced by underscores; a given id is kept unchanged.
C3_DefaultIdWhenAbsent ==
    (pc = "done" /\ call.op = "ConnectorStep" /\ ValidateRun(call.raw.run).ok)
    => /\ err = "none"
       /\ obj.id = IF call.raw.id.tag = "str" THEN Some(call.raw.id.val)
                   ELSE Some(DefaultId(call.raw.name))

\* Raw run input that supplies every required field of the model declaring
\* its tag (and a source, for aggregate_content).
Complete(run) ==
    \E v \in ActionModels :
        /\ v.tag = run.action
        /\ v.required \subseteq run.given
        /\ v.cls = "AggregateContentAction" => HasSource(run)

\* C4: constructing a step whose run carries a tag outside the nine declared
\* ones raises; for each of the nine tags a step with complete input is
\* returned; and a returned step's run is an instance of the one model whose
\* Literal tag is the tag given.
C4_UnionClosedAndExhaustive ==
    (pc = "done" /\ call.op = "ConnectorStep")
    => /\ (call.raw.run.action \notin {v.tag : v \in ActionModels})
            => err = "ValidationError"
       /\ (call.raw.id.tag = "str" /\ Complete(call.raw.run)) => err = "none"
       /\ err = "none"
            => {v.cls : v \in {w \in ActionModels : w.tag = call.raw.run.action}}
                 = {obj.run.kind}

\* C4 witness: a step returned with a run_transform action.
C4_Witness ==
    /\ pc = "done" /\ call.op = "ConnectorStep" /\ err = "none"
    /\ obj.run.kind = "RunTransformAction"
    /\ call.raw.run.action = "run_transform"

\* C5 (as claimed): ContextualPage(...) with valid blocks is returned, its
\* inputs the mapping given, or the empty mapping when inputs is omitted.
C5_PageConstructs ==
    (pc = "done" /\ call.op = "ContextualPage" /\ ValidateSteps(call.raw.blocks).ok)
    => /\ err = "none"
       /\ obj.kind = "ContextualPage"
       /\ obj.inputs = IF call.raw.inputs.none THEN <<>> ELSE call.raw.inputs.val

\* C6 (as claimed): no script whose depends_on edges contain a cycle is
\* accepted: every constructed ConnectorScript is acyclic.
C6_NoCyclicScript ==
    (pc = "done" /\ obj.kind = "ConnectorScript") => ~HasCycle(obj.steps)

\* C9 (as claimed): the derivation is idempotent and its result holds no
\* space, no hyphen and no upper-case letter.
C9_SlugHasNoUpperCase ==
    (pc = "done" /\ obj.kind = "id")
    => /\ obj.twice = obj.once
       /\ \A i \in 1..Len(obj.once) :
             obj.once[i] \notin {" ", "-"} /\ ~IsUpper(obj.once[i])

\* C9 (amended): the derivation is idempotent and its result holds no
\* space, no hyphen, no ASCII upper-case letter and no character that
\* lower-casing changes; an upper-case character without a lower-case
\* mapping stays as it is.
C9_SlugIdempotent ==
    (pc = "done" /\ obj.kind = "id")
    => /\ obj.twice = obj.once
       /\ \A i \in 1..Len(obj.once) :
             /\ obj.once[i] \notin {" ", "-", "A"}
             /\ LowerChar(obj.once[i]) = <<obj.once[i]>>
       /\ \A i \in 1..Len(call.raw.name) :
             (IsUpper(call.raw.name[i]) /\ LowerChar(call.raw.name[i]) = <<call.raw.name[i]>>)
                => \E k \in 1..Len(obj.once) : obj.once[k] = call.raw.name[i]

\* C9 witness: "A -" derives "a__".
C9_Witness ==
    /\ pc = "done" /\ obj.kind = "id"
    /\ call.raw.name = <<"A", " ", "-">>
    /\ obj.once = <<"a", "_", "_">>

\* C10 (as claimed): an AggregateContentAction has a non-empty source in
\* every reachable state, field assignments included.
C10_AlwaysHasSource ==
    obj.kind = "AggregateContentAction" => HasSource(obj)

\* C10 (amended): an AggregateContentAction has a non-empty source as long
\* as no field was assigned since its construction; an assignment to
\* source_paths or source_results is never rejected and stores its value.
C10_HasSourceUntilAssigned ==
    obj.kind = "AggregateContentAction"
    => /\ ~assigned => HasSource(obj)
       /\ assigned => /\ call.op = "setattr"
                      /\ err = "none"
                      /\ obj[call.raw.field] = call.raw.value

\* C10 witness: a constructed action, not assigned to, whose source_paths is
\* an empty list and whose source_results has an entry.
C10_Witness ==
    /\ obj.kind = "AggregateContentAction" /\ ~assigned
    /\ obj.source_paths = Some(<<>>) /\ Truthy(obj.source_results)

====
